---- MODULE Spec2Model ----
(***************************************************************************)
(* Wire formats of bitcoin/ledger.py: UnspentTransaction, ContractOutPoint *)
(* and OutputData, with the primitive codecs they are built on.            *)
(* Byte strings are sequences over 0..255; a read from a stream is a       *)
(* record [ok, val, rest], ok = FALSE standing for the exception the       *)
(* primitive raises on truncated input.                                    *)
(***************************************************************************)
EXTENDS Integers, Sequences, FiniteSets, TLC

Null == [null |-> TRUE]
Fail == [ok |-> FALSE, val |-> 0, rest |-> <<>>]
Ok(v, r) == [ok |-> TRUE, val |-> v, rest |-> r]

Drop(s, n) == SubSeq(s, n + 1, Len(s))
Take(s, n) == SubSeq(s, 1, n)

RECURSIVE Pow2(_)
Pow2(n) == IF n = 0 THEN 1 ELSE 2 * Pow2(n - 1)

(* a | b on non-negative integers *)
RECURSIVE BitOr(_, _)
BitOr(a, b) ==
    IF a = 0 THEN b
    ELSE IF b = 0 THEN a
    ELSE (IF (a % 2) + (b % 2) > 0 THEN 1 ELSE 0) + 2 * BitOr(a \div 2, b \div 2)

(* ---------------- bitcoin.serialize (primitive codecs) ----------------- *)

(* little-endian bytes of n, padded with zero bytes to len_ bytes *)
RECURSIVE leint_fixed(_, _)
leint_fixed(n, len_) ==
    IF len_ = 0 THEN <<>> ELSE <<n % 256>> \o leint_fixed(n \div 256, len_ - 1)

(* shortest little-endian byte string of n; 0 is the empty string *)
RECURSIVE serialize_leint(_)
serialize_leint(n) ==
    IF n = 0 THEN <<>> ELSE <<n % 256>> \o serialize_leint(n \div 256)

RECURSIVE leint_value(_)
leint_value(s) ==
    IF s = <<>> THEN 0 ELSE Head(s) + 256 * leint_value(Tail(s))

(* reads exactly len_ bytes and reconstructs the integer *)
deserialize_leint(file_, len_) ==
    IF Len(file_) < len_ THEN Fail
    ELSE Ok(leint_value(Take(file_, len_)), Drop(file_, len_))

serialize_varint(n) ==
    IF n < 253 THEN <<n>>
    ELSE IF n <= 65535 THEN <<253>> \o leint_fixed(n, 2)
    ELSE <<254>> \o leint_fixed(n, 4)   \* model integers stay below 2^32

deserialize_varint(file_) ==
    IF file_ = <<>> THEN Fail
    ELSE LET b == Head(file_)
             r == Tail(file_)
         IN  IF b < 253 THEN Ok(b, r)
             ELSE IF b = 253 THEN deserialize_leint(r, 2)
             ELSE IF b = 254 THEN deserialize_leint(r, 4)
             ELSE deserialize_leint(r, 8)

(* ---------------- bitcoin.tools (amount compression) ------------------- *)

RECURSIVE strip_zeros(_, _)
strip_zeros(n, e) ==
    IF n % 10 = 0 /\ e < 9 THEN strip_zeros(n \div 10, e + 1)
    ELSE [n |-> n, e |-> e]

compress_amount(amount) ==
    IF amount = 0 THEN 0
    ELSE LET s == strip_zeros(amount, 0)
         IN  IF s.e < 9
             THEN 1 + ((s.n \div 10) * 9 + (s.n % 10) - 1) * 10 + s.e
             ELSE 1 + (s.n - 1) * 10 + 9

RECURSIVE times_pow10(_, _)
times_pow10(n, e) == IF e = 0 THEN n ELSE times_pow10(n * 10, e - 1)

decompress_amount(x) ==
    IF x = 0 THEN 0
    ELSE LET y == x - 1
             e == y % 10
             z == y \div 10
             n == IF e < 9 THEN (z \div 9) * 10 + (z % 9) + 1 ELSE z + 1
         IN  times_pow10(n, e)

(* ---------------- bitcoin.script (ScriptPickler) ----------------------- *)
(* A contract is a script, a byte string.  The pickler stores the standard *)
(* 20-byte-hash templates as a type byte followed by the hash and any      *)
(* other script as VARINT(len + 6) followed by the script.                 *)

IsPubkeyHash(script) ==
    /\ Len(script) = 25
    /\ Take(script, 3) = <<118, 169, 20>>
    /\ Drop(script, 23) = <<136, 172>>

IsScriptHash(script) ==
    /\ Len(script) = 23
    /\ Take(script, 2) = <<169, 20>>
    /\ Drop(script, 22) = <<135>>

PubkeyHashScript(h) == <<118, 169, 20>> \o h \o <<136, 172>>
ScriptHashScript(h) == <<169, 20>> \o h \o <<135>>

pickler_dumps(script) ==
    IF IsPubkeyHash(script) THEN <<0>> \o SubSeq(script, 4, 23)
    ELSE IF IsScriptHash(script) THEN <<1>> \o SubSeq(script, 3, 22)
    ELSE serialize_varint(Len(script) + 6) \o script

pickler_load(file_) ==
    LET size == deserialize_varint(file_)
    IN  IF ~size.ok THEN Fail
        ELSE IF size.val = 0
             THEN IF Len(size.rest) < 20 THEN Fail
                  ELSE Ok(PubkeyHashScript(Take(size.rest, 20)), Drop(size.rest, 20))
        ELSE IF size.val = 1
             THEN IF Len(size.rest) < 20 THEN Fail
                  ELSE Ok(ScriptHashScript(Take(size.rest, 20)), Drop(size.rest, 20))
        ELSE IF size.val < 6 \/ Len(size.rest) < size.val - 6 THEN Fail
        ELSE Ok(Take(size.rest, size.val - 6), Drop(size.rest, size.val - 6))

(* Script.serialize(): the script as a length-prefixed byte string *)
contract_serialize(script) == serialize_varint(Len(script)) \o script

(* ---------------- UnspentTransaction ----------------------------------- *)
(* A record is [version, height, reference_height, outputs], outputs being *)
(* the mapping index -> [amount, contract] the sorteddict holds.           *)

NoOutputs == [i \in {} |-> Null]
Output(amount, contract) == [amount |-> amount, contract |-> contract]

HasAttr(obj, x) == x \in DOMAIN obj
GetAttr(obj, x, default) == IF HasAttr(obj, x) THEN obj[x] ELSE default
KwPop(kwargs, x, default) == IF x \in DOMAIN kwargs THEN kwargs[x] ELSE default

(* enumerate(transaction.outputs): indices 0..n-1 *)
Enumerate(outs) == [i \in 0..(Len(outs) - 1) |-> outs[i + 1]]

(* the instance a copy is made from, lines 110-114 *)
CopySource(args0) ==
    IF args0 # Null /\ \A x \in {"version", "height", "reference_height"} : HasAttr(args0, x)
    THEN args0 ELSE Null

SourcesGiven_versionOnly(args0, kwargs) ==
    (IF "transaction" \in DOMAIN kwargs THEN 1 ELSE 0)
    + (IF CopySource(args0) # Null THEN 1 ELSE 0)
    + (IF "version" \in DOMAIN kwargs THEN 1 ELSE 0)

(* a + b + c of lines 118-121 *)
SourcesGiven(args0, kwargs) ==
    (IF "transaction" \in DOMAIN kwargs THEN 1 ELSE 0)
    + (IF CopySource(args0) # Null THEN 1 ELSE 0)
    + (IF \E x \in {"version", "reference_height"} : x \in DOMAIN kwargs THEN 1 ELSE 0)

InitialOutputs_always(transaction, given, leftover) ==
    IF transaction # Null
    THEN [i \in DOMAIN given \cup DOMAIN Enumerate(transaction.outputs) |->
             IF i \in DOMAIN Enumerate(transaction.outputs)
             THEN Enumerate(transaction.outputs)[i] ELSE given[i]]
    ELSE given

(* the entries after lines 142-154: those given to the superclass          *)
(* constructor, or the transaction's outputs when there are none           *)
InitialOutputs(transaction, given, leftover) ==
    IF transaction # Null /\ DOMAIN given = {} /\ leftover = {}
    THEN Enumerate(transaction.outputs) ELSE given

(* __init__: args0 is the first positional argument, Null when none is     *)
(* given.  The result is the exception raised, or the new object together  *)
(* with the keywords left for the superclass constructor.                  *)
UnspentTransaction_init(args0, kwargs) ==
    LET transaction == KwPop(kwargs, "transaction", Null)
        other == IF CopySource(args0) = Null THEN transaction ELSE CopySource(args0)
        version == KwPop(kwargs, "version", GetAttr(other, "version", 1))
        height == KwPop(kwargs, "height", GetAttr(other, "height", 0))
        reference_height0 == GetAttr(other, "reference_height", 0)
        reference_height == IF version = 2
                            THEN KwPop(kwargs, "reference_height", reference_height0)
                            ELSE reference_height0
        popped == {"transaction", "version", "height"}
                      \cup (IF version = 2 THEN {"reference_height"} ELSE {})
        leftover == DOMAIN kwargs \ popped
        given == IF args0 = Null THEN NoOutputs ELSE args0.outputs
    IN  IF SourcesGiven(args0, kwargs) >= 2
        THEN [exc |-> "TypeError", obj |-> Null, leftover |-> {}]
        ELSE [exc |-> "none",
              obj |-> [version |-> version, height |-> height,
                       reference_height |-> reference_height,
                       outputs |-> InitialOutputs(transaction, given, leftover)],
              leftover |-> leftover]

Min(S) == CHOOSE x \in S : \A y \in S : x <= y

(* bitvector |= 1 << idx for every key *)
RECURSIVE Bitvector(_)
Bitvector(keys) ==
    IF keys = {} THEN 0
    ELSE LET k == Min(keys) IN BitOr(Pow2(k), Bitvector(keys \ {k}))

(* the outputs in ascending key order, each as amount and contract *)
RECURSIVE serialize_outputs(_, _)
serialize_outputs(outputs, keys) ==
    IF keys = {} THEN <<>>
    ELSE LET k == Min(keys)
         IN  serialize_varint(compress_amount(outputs[k].amount))
                 \o pickler_dumps(outputs[k].contract)
                 \o serialize_outputs(outputs, keys \ {k})

serialize_header_keepLength(bitvector) ==
    LET code0 == bitvector % 8
        bytes == serialize_leint(bitvector \div 8)
    IN  [code |-> code0 + Len(bytes) * 8, bitvector |-> bytes]

(* code and overflow bytes of the header, lines 167-173 *)
serialize_header(bitvector) ==
    LET code0 == bitvector % 8
        bytes == serialize_leint(bitvector \div 8)
        bitvector_len == IF code0 = 0 THEN Len(bytes) - 1 ELSE Len(bytes)
    IN  [code |-> code0 + bitvector_len * 8, bitvector |-> bytes]

UnspentTransaction_serialize_unchecked(self) ==
    LET h == serialize_header(Bitvector(DOMAIN self.outputs))
    IN  [exc |-> "none",
         bytes |-> serialize_varint(self.version)
                   \o serialize_varint(h.code)
                   \o h.bitvector
                   \o serialize_outputs(self.outputs, DOMAIN self.outputs)
                   \o serialize_varint(self.height)
                   \o (IF self.version = 2
                       THEN serialize_varint(self.reference_height) ELSE <<>>)]

UnspentTransaction_serialize(self) ==
    LET bitvector == Bitvector(DOMAIN self.outputs)
        h == serialize_header(bitvector)
    IN  IF bitvector = 0
        THEN [exc |-> "TypeError", bytes |-> <<>>]
        ELSE [exc |-> "none",
              bytes |-> serialize_varint(self.version)
                        \o serialize_varint(h.code)
                        \o h.bitvector
                        \o serialize_outputs(self.outputs, DOMAIN self.outputs)
                        \o serialize_varint(self.height)
                        \o (IF self.version = 2
                            THEN serialize_varint(self.reference_height) ELSE <<>>)]

(* the while loop of deserialize: one output is read for every set bit *)
RECURSIVE deserialize_outputs(_, _, _, _)
deserialize_outputs(idx, bitvector, file_, items) ==
    IF bitvector = 0 THEN Ok(items, file_)
    ELSE IF bitvector % 2 = 1
    THEN LET amount == deserialize_varint(file_)
             contract == pickler_load(amount.rest)
         IN  IF ~amount.ok \/ ~contract.ok THEN Fail
             ELSE deserialize_outputs(idx + 1, bitvector \div 2, contract.rest,
                      [i \in DOMAIN items \cup {idx} |->
                          IF i = idx
                          THEN Output(decompress_amount(amount.val), contract.val)
                          ELSE items[i]])
    ELSE deserialize_outputs(idx + 1, bitvector \div 2, file_, items)

deserialize_header_noAdjust(file_) ==
    LET c == deserialize_varint(file_)
        code == c.val \div 8
        more == IF code # 0 THEN deserialize_leint(c.rest, code) ELSE Ok(0, c.rest)
    IN  IF ~c.ok \/ ~more.ok THEN Fail
        ELSE Ok((c.val % 8) + more.val * 8, more.rest)

(* code, bitvector of lines 193-199 *)
deserialize_header(file_) ==
    LET c == deserialize_varint(file_)
        low == c.val % 8
        code == IF low = 0 THEN (c.val \div 8) + 1 ELSE c.val \div 8
        more == IF code # 0 THEN deserialize_leint(c.rest, code) ELSE Ok(0, c.rest)
    IN  IF ~c.ok \/ ~more.ok THEN Fail
        ELSE Ok(low + more.val * 8, more.rest)

UnspentTransaction_deserialize(file_) ==
    LET version == deserialize_varint(file_)
        header == deserialize_header(version.rest)
        items == deserialize_outputs(0, header.val, header.rest, NoOutputs)
        height == deserialize_varint(items.rest)
        reference_height == deserialize_varint(height.rest)
        kwargs == IF version.val = 2
                  THEN [version |-> version.val, height |-> height.val,
                        reference_height |-> reference_height.val]
                  ELSE [version |-> version.val, height |-> height.val]
    IN  IF ~version.ok \/ ~header.ok \/ ~items.ok \/ ~height.ok
           \/ (version.val = 2 /\ ~reference_height.ok)
        THEN [exc |-> "Error", obj |-> Null, leftover |-> {}]
        ELSE UnspentTransaction_init([outputs |-> items.val], kwargs)

UnspentTransaction_eq_metadataFirst(self, other) ==
    IF self.height # other.height \/ self.version # other.version THEN FALSE
    ELSE self.outputs = other.outputs

UnspentTransaction_eq(self, other) ==
    IF self.height # other.height \/ self.version # other.version THEN FALSE
    ELSE IF self.version = 2 /\ self.reference_height # other.reference_height THEN FALSE
    ELSE self.outputs = other.outputs

UnspentTransaction_ne(a, b) == ~UnspentTransaction_eq(a, b)

(* ---------------- ContractOutPoint, OutputData ------------------------- *)

hash256_serialize(h) == leint_fixed(h, 32)
hash256_deserialize(file_) == deserialize_leint(file_, 32)

ContractOutPoint_serialize(self) ==
    pickler_dumps(contract_serialize(self.contract))
        \o hash256_serialize(self.hash)
        \o serialize_varint(self.index)

ContractOutPoint_deserialize(file_) ==
    LET contract == pickler_load(file_)
        hash == hash256_deserialize(contract.rest)
        index == deserialize_varint(hash.rest)
    IN  IF ~contract.ok \/ ~hash.ok \/ ~index.ok
        THEN [exc |-> "Error", obj |-> Null]
        ELSE [exc |-> "none",
              obj |-> [contract |-> contract.val, hash |-> hash.val, index |-> index.val]]

OutputData_serialize(self) ==
    serialize_varint(self.version)
        \o serialize_varint(self.height)
        \o serialize_varint(compress_amount(self.amount))
        \o (IF self.version = 2
            THEN serialize_varint(BitOr(self.height * 2, self.reference_height))
            ELSE <<>>)

(* the record type has four fields and no defaults, so the constructor    *)
(* call without reference_height raises TypeError                          *)
OutputData_deserialize(file_) ==
    LET version == deserialize_varint(file_)
        height == deserialize_varint(version.rest)
        amount == deserialize_varint(height.rest)
        reference_height == deserialize_varint(amount.rest)
    IN  IF ~version.ok \/ ~height.ok \/ ~amount.ok
           \/ (version.val = 2 /\ ~reference_height.ok)
        THEN [exc |-> "Error", obj |-> Null]
        ELSE IF version.val = 2
        THEN [exc |-> "none",
              obj |-> [version |-> version.val, amount |-> decompress_amount(amount.val),
                       height |-> height.val, reference_height |-> reference_height.val]]
        ELSE [exc |-> "TypeError", obj |-> Null]

(* ======================================================================= *)
(* State                                                                   *)
(* ======================================================================= *)

VARIABLES
    self,       \* the UnspentTransaction record of a transaction index entry
    source,     \* how self came to be: "none", "transaction", "items", "decoded"
    sent,       \* the record as it was when wire was written
    wire,       \* the bytes on the stream
    origin,     \* who wrote wire: "none", "serialize", "padded", "example", "foreign"
    decoded,    \* what deserialize returned for wire
    last,       \* the last operation and the exception it raised
    call,       \* arguments of a constructor call
    made,       \* what that constructor call returned
    lhs, rhs,   \* two records being compared
    cmp,        \* the results of lhs == rhs, rhs == lhs, lhs != rhs
    key, value,         \* a contract index entry: ContractOutPoint, OutputData
    keywire, valuewire, \* their serialized bytes
    keydec, valuedec    \* what deserialize returned for those bytes

ledgerVars == <<self, source, sent, wire, origin, decoded, last>>
initVars == <<call, made>>
eqVars == <<lhs, rhs, cmp>>
indexVars == <<key, value, keywire, valuewire, keydec, valuedec>>
vars == <<self, source, sent, wire, origin, decoded, last, call, made,
          lhs, rhs, cmp, key, value, keywire, valuewire, keydec, valuedec>>

(* ---------------- bounds and input pools -------------------------------- *)

MaxOutputs == 4     \* outputs of a source transaction
MaxIndex == 26      \* largest output index of explicitly given outputs
MaxItems == 2       \* explicitly given outputs per record
MaxPad == 1         \* trailing zero bytes added by a non-minimal encoder
MaxForeign == 4     \* length of a foreign byte string

HashA == <<97, 176, 28, 170, 181, 15, 27, 142, 156, 80, 165, 5, 126, 180, 60, 45, 149, 99, 164, 238>>
HashB == <<140, 152, 143, 26, 74, 77, 226, 22, 30, 15, 80, 170, 199, 241, 126, 127, 149, 85, 202, 164>>

Contracts == {PubkeyHashScript(HashA), PubkeyHashScript(HashB), ScriptHashScript(HashA), <<81>>}

OutputPool == << Output(234925952, PubkeyHashScript(HashA)),
                 Output(110397, PubkeyHashScript(HashB)),
                 Output(0, <<81>>),
                 Output(100000000, ScriptHashScript(HashA)) >>

(* the output at index i of the transactions considered *)
OutputAt(i) == OutputPool[(i % Len(OutputPool)) + 1]

Heights == {0, 120891}
RefHeights == {0, 1000}
Versions == {1, 2}

Transactions ==
    { [version |-> v, reference_height |-> r,
       outputs |-> [i \in 1..n |-> OutputAt(i - 1)]] :
         v \in Versions, r \in RefHeights, n \in 0..MaxOutputs }

(* the indices given explicitly: the first five, and those on either side  *)
(* of a byte boundary of the overflow bitvector (bits 7|8, 15|16, 23|24)   *)
IndexPool == { i \in 0..MaxIndex : i < 5 \/ i % 8 \in {2, 3} }

ItemSets ==
    { [outputs |-> [i \in S |-> OutputAt(i)]] :
         S \in { T \in SUBSET IndexPool : Cardinality(T) \in 1..MaxItems } }

Metadata == { [version |-> 1, height |-> 0],
              [version |-> 2, height |-> 120891, reference_height |-> 1000] }

ForeignBytes == {0, 1, 8}
RECURSIVE ByteStrings(_)
ByteStrings(n) ==
    IF n = 0 THEN {<<>>}
    ELSE LET shorter == ByteStrings(n - 1)
         IN  shorter \cup { Append(s, b) : s \in { t \in shorter : Len(t) = n - 1 },
                                           b \in ForeignBytes }

(* documented example 2, ledger.py lines 74-82 *)
Example2 ==
    <<2, 8, 4, 64>>
    \o <<254, 121, 43, 6, 126, 0>> \o HashA
    \o <<254, 35, 41, 15, 0, 0>> \o HashB
    \o <<254, 59, 216, 1, 0>> \o <<253, 232, 3>>

Pending == [exc |-> "pending", obj |-> Null, leftover |-> {}]
NoCall == [args0 |-> Null, kwargs |-> [none |-> TRUE]]

IdleLedger ==
    /\ self = Null /\ source = "none" /\ sent = Null /\ wire = <<>>
    /\ origin = "none" /\ decoded = Pending
    /\ last = [op |-> "none", exc |-> "none"]
IdleInit == call = NoCall /\ made = Pending
IdleEq == lhs = Null /\ rhs = Null /\ cmp = Null
IdleIndex ==
    /\ key = Null /\ value = Null /\ keywire = <<>> /\ valuewire = <<>>
    /\ keydec = Pending /\ valuedec = Pending

(* ======================================================================= *)
(* The life of a transaction index entry                                   *)
(* ======================================================================= *)

Step(op, exc) == last' = [op |-> op, exc |-> exc]

(* UnspentTransaction(transaction=tx, height=h) *)
FromTransaction ==
    /\ self = Null
    /\ \E tx \in Transactions, h \in Heights :
         LET r == UnspentTransaction_init(Null, [transaction |-> tx, height |-> h])
         IN  /\ r.exc = "none"
             /\ self' = r.obj
    /\ source' = "transaction"
    /\ Step("init", "none")
    /\ UNCHANGED <<sent, wire, origin, decoded>>

(* UnspentTransaction(items, version=.., height=.., reference_height=..) *)
FromItems ==
    /\ self = Null
    /\ \E items \in ItemSets, m \in Metadata :
         LET r == UnspentTransaction_init(items, m)
         IN  /\ r.exc = "none"
             /\ self' = r.obj
    /\ source' = "items"
    /\ Step("init", "none")
    /\ UNCHANGED <<sent, wire, origin, decoded>>

(* del self[idx]: an output is spent *)
Spend ==
    /\ self # Null
    /\ \E idx \in DOMAIN self.outputs :
         self' = [self EXCEPT !.outputs = [i \in DOMAIN self.outputs \ {idx} |-> self.outputs[i]]]
    /\ Step("spend", "none")
    /\ UNCHANGED <<source, sent, wire, origin, decoded>>

(* self.serialize(), the bytes written to the stream *)
Serialize ==
    /\ self # Null
    /\ LET r == UnspentTransaction_serialize(self)
       IN  /\ Step("serialize", r.exc)
           /\ IF r.exc = "none"
              THEN /\ wire' = r.bytes /\ sent' = self
                   /\ origin' = "serialize" /\ decoded' = Pending
              ELSE UNCHANGED <<wire, sent, origin, decoded>>
    /\ UNCHANGED <<self, source>>

(* UnspentTransaction.deserialize(stream) *)
Deserialize ==
    /\ origin # "none"
    /\ decoded = Pending
    /\ decoded' = UnspentTransaction_deserialize(wire)
    /\ Step("deserialize", decoded'.exc)
    /\ UNCHANGED <<self, source, sent, wire, origin>>

(* the decoded record becomes the index entry *)
Adopt ==
    /\ self = Null
    /\ decoded.exc = "none"
    /\ self' = decoded.obj
    /\ source' = "decoded"
    /\ Step("adopt", "none")
    /\ UNCHANGED <<sent, wire, origin, decoded>>

(* the encoding of record rec by an encoder that pads the overflow bytes   *)
(* with pad zero bytes and adjusts the length field to match               *)
NonMinimalEncoding(rec, pad) ==
    LET bitvector == Bitvector(DOMAIN rec.outputs)
        bytes == serialize_leint(bitvector \div 8) \o [i \in 1..pad |-> 0]
        code == (bitvector % 8)
                   + 8 * (IF bitvector % 8 = 0 THEN Len(bytes) - 1 ELSE Len(bytes))
    IN  serialize_varint(rec.version) \o serialize_varint(code) \o bytes
            \o serialize_outputs(rec.outputs, DOMAIN rec.outputs)
            \o serialize_varint(rec.height)
            \o (IF rec.version = 2 THEN serialize_varint(rec.reference_height) ELSE <<>>)

(* a peer re-encodes the record on the stream non-minimally *)
Pad ==
    /\ origin = "serialize"
    /\ \E pad \in 1..MaxPad : wire' = NonMinimalEncoding(sent, pad)
    /\ origin' = "padded"
    /\ decoded' = Pending
    /\ Step("pad", "none")
    /\ UNCHANGED <<self, source, sent>>

(* the stream holds the documented example *)
ReceiveExample ==
    /\ self = Null /\ origin = "none"
    /\ wire' = Example2
    /\ origin' = "example"
    /\ Step("receive", "none")
    /\ UNCHANGED <<self, source, sent, decoded>>

(* the stream holds bytes no serialize wrote *)
ReceiveForeign ==
    /\ self = Null /\ origin = "none"
    /\ wire' \in ByteStrings(MaxForeign)
    /\ origin' = "foreign"
    /\ Step("receive", "none")
    /\ UNCHANGED <<self, source, sent, decoded>>

Init == IdleLedger /\ IdleInit /\ IdleEq /\ IdleIndex

Next ==
    \/ FromTransaction /\ UNCHANGED <<initVars, eqVars, indexVars>>
    \/ FromItems /\ UNCHANGED <<initVars, eqVars, indexVars>>
    \/ Spend /\ UNCHANGED <<initVars, eqVars, indexVars>>
    \/ Serialize /\ UNCHANGED <<initVars, eqVars, indexVars>>
    \/ Deserialize /\ UNCHANGED <<initVars, eqVars, indexVars>>
    \/ Adopt /\ UNCHANGED <<initVars, eqVars, indexVars>>
    \/ Pad /\ UNCHANGED <<initVars, eqVars, indexVars>>
    \/ ReceiveExample /\ UNCHANGED <<initVars, eqVars, indexVars>>
    \/ ReceiveForeign /\ UNCHANGED <<initVars, eqVars, indexVars>>

Spec == Init /\ [][Next]_vars

(* ======================================================================= *)
(* Constructor calls                                                       *)
(* ======================================================================= *)

NoKw == [k \in {} |-> Null]

(* source transactions, with and without the attributes the constructor   *)
(* looks for; Null is transaction=None                                     *)
CtorTransactions ==
    {Null} \cup
    { [outputs |-> [i \in 1..n |-> OutputAt(i - 1)]] @@ av @@ ah @@ ar :
        n \in 0..2,
        av \in {NoKw, [version |-> 2]},
        ah \in {NoKw, [height |-> 7]},
        ar \in {NoKw, [reference_height |-> 1000]} }

CtorArgs ==
    { Null,
      [outputs |-> NoOutputs],
      [outputs |-> [i \in {1, 4} |-> OutputAt(i)]],
      [version |-> 2, height |-> 120891, reference_height |-> 1000,
       outputs |-> [i \in {0} |-> OutputAt(i)]] }

CtorKwargs ==
    { kt @@ kv @@ kh @@ kr :
        kt \in {NoKw} \cup { [transaction |-> t] : t \in CtorTransactions },
        kv \in {NoKw} \cup { [version |-> v] : v \in Versions },
        kh \in {NoKw, [height |-> 9]},
        kr \in {NoKw, [reference_height |-> 5]} }

Construct ==
    /\ call = NoCall
    /\ \E args0 \in CtorArgs, kwargs \in CtorKwargs :
         /\ call' = [args0 |-> args0, kwargs |-> kwargs]
         /\ made' = UnspentTransaction_init(args0, kwargs)

NextInit == Construct /\ UNCHANGED <<ledgerVars, eqVars, indexVars>>

SpecInit == Init /\ [][NextInit]_vars

(* ======================================================================= *)
(* Comparison of two records                                               *)
(* ======================================================================= *)

EqRecords ==
    { [version |-> v, height |-> h, reference_height |-> r,
       outputs |-> [i \in S |-> OutputAt(i)]] :
        v \in Versions, h \in Heights, r \in RefHeights,
        S \in {{}, {1}, {1, 4}} }

InitEq ==
    /\ IdleLedger /\ IdleInit /\ IdleIndex
    /\ lhs \in EqRecords /\ rhs \in EqRecords /\ cmp = Null

Compare ==
    /\ cmp = Null
    /\ cmp' = [eq |-> UnspentTransaction_eq(lhs, rhs),
               qe |-> UnspentTransaction_eq(rhs, lhs),
               ne |-> UnspentTransaction_ne(lhs, rhs)]
    /\ UNCHANGED <<lhs, rhs>>

NextEq == Compare /\ UNCHANGED <<ledgerVars, initVars, indexVars>>

SpecEq == InitEq /\ [][NextEq]_vars

(* ======================================================================= *)
(* A contract index entry                                                  *)
(* ======================================================================= *)

Hashes == {0, 65535}
OutIndexes == {0, 1, 253}
Amounts == {0, 110397, 100000000}
DataHeights == {0, 1, 120891}
DataRefHeights == {0, 1, 1000}

ContractOutPoints ==
    { [contract |-> c, hash |-> h, index |-> i] :
        c \in Contracts, h \in Hashes, i \in OutIndexes }

OutputDatas ==
    { [version |-> v, amount |-> a, height |-> h, reference_height |-> r] :
        v \in Versions, a \in Amounts, h \in DataHeights, r \in DataRefHeights }

InitIndex ==
    /\ IdleLedger /\ IdleInit /\ IdleEq
    /\ key \in ContractOutPoints /\ value \in OutputDatas
    /\ keywire = <<>> /\ valuewire = <<>>
    /\ keydec = Pending /\ valuedec = Pending

SerializeKey ==
    /\ keywire = <<>>
    /\ keywire' = ContractOutPoint_serialize(key)
    /\ UNCHANGED <<key, value, valuewire, keydec, valuedec>>

DeserializeKey ==
    /\ keywire # <<>> /\ keydec = Pending
    /\ keydec' = ContractOutPoint_deserialize(keywire) @@ [leftover |-> {}]
    /\ UNCHANGED <<key, value, keywire, valuewire, valuedec>>

SerializeValue ==
    /\ valuewire = <<>>
    /\ valuewire' = OutputData_serialize(value)
    /\ UNCHANGED <<key, value, keywire, keydec, valuedec>>

DeserializeValue ==
    /\ valuewire # <<>> /\ valuedec = Pending
    /\ valuedec' = OutputData_deserialize(valuewire) @@ [leftover |-> {}]
    /\ UNCHANGED <<key, value, keywire, valuewire, keydec>>

NextIndex ==
    \/ SerializeKey /\ UNCHANGED <<ledgerVars, initVars, eqVars>>
    \/ DeserializeKey /\ UNCHANGED <<ledgerVars, initVars, eqVars>>
    \/ SerializeValue /\ UNCHANGED <<ledgerVars, initVars, eqVars>>
    \/ DeserializeValue /\ UNCHANGED <<ledgerVars, initVars, eqVars>>

SpecIndex == InitIndex /\ [][NextIndex]_vars

(* ======================================================================= *)
(* Properties                                                              *)
(* ======================================================================= *)

Low(keys) == { i \in keys : i < 3 }

(* C1: deserialize of the bytes serialize wrote for a record returns an    *)
(* equal record: same version, same height, same reference_height when the *)
(* version is 2, and the same index -> (amount, contract) mapping.         *)
C1_RoundTrip ==
    (origin = "serialize" /\ decoded # Pending) =>
        /\ decoded.exc = "none"
        /\ UnspentTransaction_eq(decoded.obj, sent)
        /\ decoded.obj.version = sent.version
        /\ decoded.obj.height = sent.height
        /\ (sent.version = 2 => decoded.obj.reference_height = sent.reference_height)
        /\ decoded.obj.outputs = sent.outputs

C1_Witness ==
    /\ origin = "serialize" /\ decoded.exc = "none"
    /\ sent.version = 2 /\ sent.reference_height = 1000
    /\ Low(DOMAIN sent.outputs) # {}
    /\ \E i \in DOMAIN sent.outputs : i >= 19

(* C2: OutputData.deserialize of the bytes of x.serialize() succeeds and   *)
(* returns a value equal to x in all four fields.                          *)
C2_OutputDataRoundTrip ==
    valuedec # Pending => (valuedec.exc = "none" /\ valuedec.obj = value)

(* C3: ContractOutPoint.deserialize of the bytes of x.serialize() returns  *)
(* a value equal to x: the original contract, the same hash and index.     *)
C3_OutPointRoundTrip ==
    keydec # Pending => (keydec.exc = "none" /\ keydec.obj = key)

Supplied(c) ==
    (IF "transaction" \in DOMAIN c.kwargs THEN 1 ELSE 0)
    + (IF c.args0 # Null /\ {"version", "height", "reference_height"} \subseteq DOMAIN c.args0
       THEN 1 ELSE 0)
    + (IF {"version", "reference_height"} \cap DOMAIN c.kwargs # {} THEN 1 ELSE 0)

(* C4: the constructor raises, producing no record, exactly when two or    *)
(* more of source transaction, source instance and explicit metadata are   *)
(* supplied together.                                                      *)
C4_ChooseOne ==
    made # Pending =>
        /\ (made.exc = "TypeError") = (Supplied(call) >= 2)
        /\ (made.exc = "TypeError" => made.obj = Null)
        /\ (made.exc = "none" => made.obj # Null)

C4_Witness ==
    /\ made.exc = "TypeError"
    /\ Supplied(call) = 2
    /\ call.args0 = Null
    /\ "version" \notin DOMAIN call.kwargs

(* C5: serialize() succeeds, returning bytes, exactly when at least one    *)
(* entry remains, raises and returns no bytes when none does, and leaves   *)
(* the record unchanged either way.                                        *)
C5_SerializeNeedsEntry ==
    [][last'.op = "serialize" =>
          /\ self' = self
          /\ (last'.exc = "none") = (DOMAIN self.outputs # {})
          /\ (last'.exc = "none" => wire' # <<>> /\ origin' = "serialize" /\ sent' = self)
          /\ (last'.exc # "none" => wire' = wire /\ origin' = origin)]_vars

(* an earlier serialize returned bytes, every output was spent since, and   *)
(* serialize was called again                                              *)
C5_Witness ==
    /\ source = "transaction"
    /\ sent # Null /\ Cardinality(DOMAIN sent.outputs) >= 2
    /\ last.op = "serialize" /\ last.exc = "TypeError"
    /\ DOMAIN self.outputs = {}

(* C6: a == b exactly when versions, heights, reference heights in case    *)
(* the version is 2, and output mappings are equal; b == a agrees and      *)
(* a != b is the negation.                                                 *)
C6_Equality ==
    cmp # Null =>
        /\ cmp.eq = ( /\ lhs.version = rhs.version
                      /\ lhs.height = rhs.height
                      /\ (lhs.version = 2 => lhs.reference_height = rhs.reference_height)
                      /\ lhs.outputs = rhs.outputs )
        /\ cmp.qe = cmp.eq
        /\ cmp.ne = ~cmp.eq

C6_Witness ==
    /\ cmp # Null /\ ~cmp.eq
    /\ lhs.version = 2 /\ rhs.version = 2
    /\ lhs.height = rhs.height /\ lhs.outputs = rhs.outputs
    /\ lhs.outputs # NoOutputs
    /\ lhs.reference_height # rhs.reference_height

(* the bytes that follow the overflow byte string *)
Trailer(rec) ==
    serialize_outputs(rec.outputs, DOMAIN rec.outputs)
        \o serialize_varint(rec.height)
        \o (IF rec.version = 2 THEN serialize_varint(rec.reference_height) ELSE <<>>)

WireCode == deserialize_varint(Tail(wire)).val
WireOverflow == SubSeq(wire, 3, Len(wire) - Len(Trailer(sent)))

(* C7: the overflow byte string serialize emits is the shortest            *)
(* little-endian encoding of bitvector >> 3, code >> 3 is its length when  *)
(* one of indices 0, 1, 2 is present and its length minus one otherwise;   *)
(* deserialize accepts an overflow byte string padded with zero bytes and  *)
(* returns the record it returns for the minimal encoding.                 *)
C7_Minimality ==
    /\ origin = "serialize" =>
         /\ leint_value(WireOverflow) = Bitvector(DOMAIN sent.outputs) \div 8
         /\ (WireOverflow # <<>> => WireOverflow[Len(WireOverflow)] # 0)
         /\ IF Low(DOMAIN sent.outputs) # {}
            THEN WireCode \div 8 = Len(WireOverflow)
            ELSE Len(WireOverflow) >= 1 /\ WireCode \div 8 = Len(WireOverflow) - 1
    /\ (origin = "padded" /\ decoded # Pending) =>
         /\ decoded.exc = "none"
         /\ decoded = UnspentTransaction_deserialize(UnspentTransaction_serialize(sent).bytes)

C7_Witness ==
    /\ origin = "padded" /\ decoded.exc = "none"
    /\ Low(DOMAIN sent.outputs) = {}
    /\ \E i \in DOMAIN sent.outputs : i >= 11

(* C8: the documented example 02080440... decodes to a version 2 record    *)
(* with unspent outputs exactly at indices 4 and 16, height 120891 and     *)
(* reference_height 1000.                                                  *)
C8_Example2 ==
    (origin = "example" /\ decoded # Pending) =>
        /\ decoded.exc = "none"
        /\ decoded.obj.version = 2
        /\ DOMAIN decoded.obj.outputs = {4, 16}
        /\ decoded.obj.outputs[4] = Output(234925952, PubkeyHashScript(HashA))
        /\ decoded.obj.outputs[16] = Output(110397, PubkeyHashScript(HashB))
        /\ decoded.obj.height = 120891
        /\ decoded.obj.reference_height = 1000

CallTransaction == call.kwargs["transaction"]
FromSourceTransaction ==
    /\ made.exc = "none"
    /\ "transaction" \in DOMAIN call.kwargs
    /\ CallTransaction # Null
GivenOutputs == IF call.args0 = Null THEN NoOutputs ELSE call.args0.outputs

(* C9: a record built from a source transaction and no explicitly given    *)
(* outputs has the transaction's outputs as entries 0..n-1 and takes       *)
(* version, height and reference_height from the transaction where it has  *)
(* them (defaults 1, 0, 0); with explicitly given outputs it retains       *)
(* exactly those.                                                          *)
C9_FromTransaction_Original ==
    FromSourceTransaction =>
        IF GivenOutputs = NoOutputs
        THEN /\ made.obj.outputs = Enumerate(CallTransaction.outputs)
             /\ made.obj.version = GetAttr(CallTransaction, "version", 1)
             /\ made.obj.height = GetAttr(CallTransaction, "height", 0)
             /\ made.obj.reference_height = GetAttr(CallTransaction, "reference_height", 0)
        ELSE made.obj.outputs = GivenOutputs

(* C9 as amended: the same, except that the height is the height keyword   *)
(* when one is given and the transaction's (default 0) only otherwise.     *)
C9_FromTransaction ==
    FromSourceTransaction =>
        IF GivenOutputs = NoOutputs
        THEN /\ made.obj.outputs = Enumerate(CallTransaction.outputs)
             /\ made.obj.version = GetAttr(CallTransaction, "version", 1)
             /\ made.obj.height =
                   KwPop(call.kwargs, "height", GetAttr(CallTransaction, "height", 0))
             /\ made.obj.reference_height = GetAttr(CallTransaction, "reference_height", 0)
        ELSE made.obj.outputs = GivenOutputs

C9_Witness ==
    /\ FromSourceTransaction
    /\ GivenOutputs = NoOutputs
    /\ Len(CallTransaction.outputs) = 2
    /\ "height" \in DOMAIN call.kwargs
    /\ "height" \in DOMAIN CallTransaction
    /\ DOMAIN made.obj.outputs = {0, 1}

(* C10: deserialize either fails or returns a record that holds at least   *)
(* one output entry and can be serialized again.                           *)
C10_DecodedSerializable ==
    decoded.exc = "none" =>
        /\ DOMAIN decoded.obj.outputs # {}
        /\ UnspentTransaction_serialize(decoded.obj).exc = "none"

====
